---- MODULE Spec2Model ----
(***************************************************************************)
(* OffWorldMonolithEnv (offworld_gym/envs/real/offworld_monolith_env.py):  *)
(* the constructor's handshake loop (_initiate) and the step / reset /     *)
(* render surface of the real environment, as a state machine.             *)
(*                                                                         *)
(* The secured bridge (perform_handshake, perform_action, perform_reset)   *)
(* is the environment of the model: each call either raises or returns a   *)
(* value drawn from a small set.                                           *)
(*                                                                         *)
(* GazeboGymEnv (offworld_gym/envs/gazebo/gazebo_env.py): launch_node, the *)
(* _process_waiter thread and close, with the launched process tree as     *)
(* the environment (specification SpecGazebo).                             *)
(*                                                                         *)
(* ImageUtils.process_depth_msg (offworld_gym/envs/gazebo/utils.py), a     *)
(* pure function, applied to bounded frames (specification SpecDepth).     *)
(***************************************************************************)
EXTENDS Integers, Sequences, FiniteSets, TLC

VARIABLES
    pc,                 \* "initiate": inside __init__/_initiate; "ready": the
                        \* constructor returned an instance; "failed": the
                        \* constructor raised and no instance exists
    now,                \* time.time() - wait_start, in seconds, while the
                        \* constructor is inside _initiate; 0 afterwards
    hs_response,        \* (heartbeat, registered, message) of the latest poll
    handshake_requests, \* perform_handshake calls issued so far
    step_count,         \* self.step_count
    last_state,         \* self._last_state
    op,                 \* the facade call in progress or completed last
    arg,                \* the raw action passed to the latest step call
    outcome,            \* "running" | "returned" | "raised" of that call
    error,              \* the message of the exception it raised, or NoError
    ret,                \* the value it returned
    sent,               \* the bridge requests that call issued, in order
    server,             \* the server model answering the handshake
    backend_never_done, \* TRUE: perform_action never reports done
    run,                \* calls so far, while all were completed valid steps
                        \* with backend done = false; NoRun otherwise
    exchange_failed,    \* a perform_action / perform_reset call has raised
    \* GazeboGymEnv
    g_pc,               \* "new": before __init__; "constructed": after it
    roslaunch_process,  \* self.roslaunch_process: "unset", or the state of
                        \* the launched process: "running" | "exited"
    returncode,         \* returncode of the Popen object: None until waited
    roslaunch_wait_thread,  \* the waiter thread: "unset" | "waiting" |
                        \* "finished" (logged info) | "failed" (logged error)
    children,           \* the processes roslaunch started: "none" |
                        \* "alive" | "terminating" (SIGTERM sent) | "gone"
    rosmaster,          \* the rosmaster / roscore processes of the user
    shutdown_hook,      \* "unset" | "registered" | "ran": rospy.on_shutdown
    closes,             \* close calls completed
    close_error,        \* the exception the latest close raised, or NoError
    close_traceback,    \* the latest close printed a traceback
    \* ImageUtils.process_depth_msg
    depth_msg,          \* the raw depth frame (one row of pixels)
    clip_max,           \* max_value_for_clip_and_normalize: << >> for None
    depth_clean,        \* the frame handed to cv2.resize
    depth_img           \* the frame returned

real_vars == << pc, now, hs_response, handshake_requests, step_count,
                last_state, op, arg, outcome, error, ret, sent, server,
                backend_never_done, run, exchange_failed >>

gazebo_vars == << g_pc, roslaunch_process, returncode, roslaunch_wait_thread,
                  children, rosmaster, shutdown_hook, closes, close_error,
                  close_traceback >>

depth_vars == << depth_msg, clip_max, depth_clean, depth_img >>

vars == << real_vars, gazebo_vars, depth_vars >>

----------------------------------------------------------------------------
(* Bounds of the model *)

\* step_count values above MaxCount are represented by MaxCount: the code
\* compares the counter only for equality with _EPISODE_LENGTH < MaxCount.
MaxCount == 101
\* handshake polls explored
MaxPolls == 2
\* seconds of handshake time explored
MaxClock == 62

\* close calls made by the caller
MaxCloses == 2
\* pixels of a depth frame
FrameWidth == 2

(* Program constants *)

EPISODE_LENGTH == 100
HandshakeTimeout == 60
ActionSpaceSize == 4

----------------------------------------------------------------------------
(* Values *)

None == "None"
STATUS_RUNNING == "STATUS_RUNNING"
STATUS_STOPPED == "STATUS_STOPPED"      \* stands for any non-running status

NoError == "no error"
NotReadyMsg == "Gym server is not ready."
TimedOutMsg == "Connect to the environment server timed out."
NoneActionMsg == "Action cannot be None."
ActionTypeMsg == "Action type is not recognized."
ActionValueMsg == "Unrecognized value for the action"
BridgeError == "bridge call raised"
NotImplementedMsg == "NotImplementedError"

RegisteredMsg == "Experiment registered."
Messages == {"Experiment is not registered.", "Experiment name is taken."}
Observations == {"obs_a", "obs_b"}
Rewards == {1}
RenderModes == {"human", "rgb_array"}

ServerModels == {"never_responds", "not_running", "arbitrary"}

NoResponse == [heartbeat |-> None, registered |-> FALSE, message |-> ""]

\* what perform_handshake can return under each server model
HandshakeResponses(s) ==
    LET silent == {[heartbeat |-> None, registered |-> FALSE, message |-> ""]}
        stopped == [heartbeat : {STATUS_STOPPED}, registered : BOOLEAN,
                    message : Messages]
        running == [heartbeat : {STATUS_RUNNING}, registered : {FALSE},
                    message : Messages]
                   \cup {[heartbeat |-> STATUS_RUNNING, registered |-> TRUE,
                          message |-> RegisteredMsg]}
    IN  CASE s = "never_responds" -> silent
          [] s = "not_running" -> stopped
          [] OTHER -> silent \cup stopped \cup running

\* the raw values a caller can pass to step
RawActions ==
    {[kind |-> "none", val |-> 0], [kind |-> "other", val |-> 0]}
    \cup [kind : {"int"}, val : -1 .. ActionSpaceSize]
    \cup [kind : {"enum"}, val : 0 .. ActionSpaceSize - 1]

NoAction == [kind |-> "none", val |-> 0]
NoArg == -1

\* what perform_action can do: raise, or return (state, reward, done)
ActionResults(neverDone) ==
    [ok : {FALSE}, state : {None}, reward : {0}, done : {FALSE}]
    \cup [ok : {TRUE}, state : Observations, reward : Rewards,
          done : IF neverDone THEN {FALSE} ELSE BOOLEAN]

\* what perform_reset can do: raise, or return a state
ResetResults ==
    [ok : {FALSE}, state : {None}] \cup [ok : {TRUE}, state : Observations]

NoRet == [state |-> None, reward |-> 0, done |-> FALSE]

Request(name, a) == [req |-> name, action |-> a]

\* the processes roslaunch starts: the simulator server, its client and one
\* other node
Children == {"gzserver", "gzclient", "robot_node"}
\* the names close hands to killall -9
KilledByName == {"gzclient", "gzserver", "rosmaster", "roscore"}

\* no GazeboGymEnv has been constructed
GazeboIdle ==
    /\ g_pc = "new"
    /\ roslaunch_process = "unset"
    /\ returncode = None
    /\ roslaunch_wait_thread = "unset"
    /\ children = [c \in Children |-> "none"]
    /\ rosmaster = "none"
    /\ shutdown_hook = "unset"
    /\ closes = 0
    /\ close_error = NoError
    /\ close_traceback = FALSE

\* no depth frame has been processed
DepthIdle ==
    /\ depth_msg = << >>
    /\ clip_max = << >>
    /\ depth_clean = << >>
    /\ depth_img = << >>

----------------------------------------------------------------------------
(* Construction: __init__ and the handshake loop of _initiate *)

Init ==
    /\ pc = "initiate"
    /\ now = 0
    /\ hs_response = NoResponse
    /\ handshake_requests = 0
    /\ step_count = 0
    /\ last_state = None
    /\ op = "__init__"
    /\ arg = NoAction
    /\ outcome = "running"
    /\ error = NoError
    /\ ret = NoRet
    /\ sent = << >>
    /\ server \in ServerModels
    /\ backend_never_done \in BOOLEAN
    /\ run = 0
    /\ exchange_failed = FALSE
    /\ GazeboIdle
    /\ DepthIdle

\* mutant: a non-running status is polled again instead of raising
HandshakeBranchRetriesNotRunning(r) ==
    IF r.heartbeat = None THEN "continue"
    ELSE IF r.heartbeat = STATUS_RUNNING /\ r.registered THEN "break"
    ELSE IF r.heartbeat = STATUS_RUNNING /\ ~r.registered THEN "raise_message"
    ELSE "continue"

\* mutant: a running server is accepted whether or not it registered
HandshakeBranchIgnoresRegistered(r) ==
    IF r.heartbeat = None THEN "continue"
    ELSE IF r.heartbeat = STATUS_RUNNING THEN "break"
    ELSE "raise_not_ready"

\* the if / elif chain of one iteration of the loop: what it does with the
\* response (continue, break, or raise)
HandshakeBranch(r) ==
    IF r.heartbeat = None THEN "continue"
    ELSE IF r.heartbeat = STATUS_RUNNING /\ r.registered THEN "break"
    ELSE IF r.heartbeat = STATUS_RUNNING /\ ~r.registered THEN "raise_message"
    ELSE "raise_not_ready"

\* the test that follows the chain
TimedOut(t) == t > HandshakeTimeout

ConstructorRaises(msg) ==
    /\ pc' = "failed"
    /\ outcome' = "raised"
    /\ error' = msg
    /\ now' = 0
    /\ UNCHANGED << step_count, last_state >>

\* one iteration of the while-True loop of _initiate; on break, the rest of
\* __init__
InitiatePoll(r) ==
    /\ pc = "initiate"
    /\ handshake_requests < MaxPolls
    /\ handshake_requests' = handshake_requests + 1
    /\ sent' = Append(sent, Request("perform_handshake", NoArg))
    /\ hs_response' = r
    /\ LET branch == HandshakeBranch(r)
       IN  CASE branch = "continue" ->
                  UNCHANGED << pc, now, outcome, error, step_count,
                               last_state >>
             [] branch = "break" ->
                  /\ pc' = "ready"
                  /\ outcome' = "returned"
                  /\ step_count' = 0
                  /\ last_state' = None
                  /\ now' = 0
                  /\ UNCHANGED error
             [] branch = "raise_message" -> ConstructorRaises(r.message)
             [] branch = "raise_not_ready" -> ConstructorRaises(NotReadyMsg)
             [] OTHER ->
                  \* control falls out of the chain: the timeout test
                  IF TimedOut(now)
                  THEN ConstructorRaises(TimedOutMsg)
                  ELSE UNCHANGED << pc, now, outcome, error, step_count,
                                    last_state >>
    /\ UNCHANGED << op, arg, ret, server, backend_never_done, run,
                    exchange_failed >>

\* a second passes while the constructor is inside the handshake loop
Tick ==
    /\ pc = "initiate"
    /\ now < MaxClock
    /\ now' = now + 1
    /\ UNCHANGED << pc, hs_response, handshake_requests, step_count,
                    last_state, op, arg, outcome, error, ret, sent, server,
                    backend_never_done, run, exchange_failed >>
    /\ UNCHANGED << gazebo_vars, depth_vars >>

----------------------------------------------------------------------------
(* step *)

\* the value of run once the calls made are no longer such a run
NoRun == EPISODE_LENGTH + 1

\* self.step_count += 1
Increment(count) == IF count < MaxCount THEN count + 1 ELSE MaxCount

\* the three assertions on the action: the message of the first that fails
ActionAssert(a) ==
    IF a.kind = "none" THEN NoneActionMsg
    ELSE IF a.kind \notin {"enum", "int"} THEN ActionTypeMsg
    ELSE IF a.kind = "int" /\ ~(a.val >= 0 /\ a.val < ActionSpaceSize)
         THEN ActionValueMsg
    ELSE "ok"

\* the member of the action enum with value v
FourDiscreteMotionActions(v) ==
    CASE v = 0 -> "LEFT"
      [] v = 1 -> "RIGHT"
      [] v = 2 -> "FORWARD"
      [] v = 3 -> "BACKWARD"
      [] OTHER -> "ValueError"

\* the integers the manual-control example sends for the arrow keys
key_mapping == [up |-> 2, down |-> 3, left |-> 0, right |-> 1, esc |-> -1]

\* mutant: the integer is shifted by one before it is converted
DecodeShifted(a) ==
    IF a.kind = "int"
    THEN [kind |-> "enum", val |-> (a.val + 1) % ActionSpaceSize]
    ELSE a

\* an integer becomes FourDiscreteMotionActions(action); an enum is kept
Decode(a) == IF a.kind = "int" THEN [kind |-> "enum", val |-> a.val] ELSE a

\* mutant: the episode is cut one step late
EpisodeCompleteLate(count) == count = EPISODE_LENGTH + 1

\* the episode-length cap
EpisodeComplete(count) == count = EPISODE_LENGTH

\* mutant: the counter is reset only when the cap is reached
CounterAfterStepCapOnly(count, done) ==
    IF done /\ count = EPISODE_LENGTH THEN 0 ELSE count

\* if done: self.step_count = 0
CounterAfterStep(count, done) == IF done THEN 0 ELSE count

\* mutant: the bridge is called before the action is validated
StepRequestsBeforeAssert(a, r) ==
    << Request("perform_action", a.val) >>

\* mutant: a failed exchange is sent again
StepRequestsRetry(a, r) ==
    IF ActionAssert(a) # "ok" THEN << >>
    ELSE IF r.ok THEN << Request("perform_action", Decode(a).val) >>
    ELSE << Request("perform_action", Decode(a).val),
            Request("perform_action", Decode(a).val) >>

\* the bridge requests one step call issues
StepRequests(a, r) ==
    IF ActionAssert(a) # "ok" THEN << >>
    ELSE << Request("perform_action", Decode(a).val) >>

Handshakes(requests) ==
    Cardinality({i \in 1 .. Len(requests) :
                    requests[i].req = "perform_handshake"})

Step(a, r) ==
    /\ pc = "ready"
    /\ op' = "step"
    /\ arg' = a
    /\ sent' = StepRequests(a, r)
    /\ handshake_requests' = handshake_requests + Handshakes(sent')
    /\ LET count == Increment(step_count)
           check == ActionAssert(a)
           done == r.done \/ EpisodeComplete(count)
       IN  IF check # "ok"
           THEN \* an assertion fails: the call raises after the increment
                /\ step_count' = count
                /\ outcome' = "raised"
                /\ error' = check
                /\ ret' = NoRet
                /\ run' = NoRun
                /\ UNCHANGED << last_state, exchange_failed >>
           ELSE IF ~r.ok
           THEN \* perform_action raises: the exception leaves step
                /\ step_count' = count
                /\ outcome' = "raised"
                /\ error' = BridgeError
                /\ ret' = NoRet
                /\ run' = NoRun
                /\ exchange_failed' = TRUE
                /\ UNCHANGED last_state
           ELSE /\ last_state' = r.state
                /\ step_count' = CounterAfterStep(count, done)
                /\ outcome' = "returned"
                /\ error' = NoError
                /\ ret' = [state |-> r.state, reward |-> r.reward,
                           done |-> done]
                /\ run' = IF run \in 0 .. EPISODE_LENGTH - 1 /\ ~r.done
                          THEN run + 1 ELSE NoRun
                /\ UNCHANGED exchange_failed
    /\ UNCHANGED << pc, now, hs_response, server, backend_never_done >>

----------------------------------------------------------------------------
(* reset and render *)

\* mutant: reset re-opens the session before resetting
ResetRequestsReconnect(r) ==
    << Request("perform_handshake", NoArg), Request("perform_reset", NoArg) >>

\* the bridge requests one reset call issues
ResetRequests(r) == << Request("perform_reset", NoArg) >>

\* mutant: reset caches the observation it returns
ResetCachesState(r) ==
    /\ pc = "ready"
    /\ op' = "reset"
    /\ arg' = NoAction
    /\ sent' = ResetRequests(r)
    /\ handshake_requests' = handshake_requests + Handshakes(sent')
    /\ IF r.ok
       THEN /\ outcome' = "returned"
            /\ error' = NoError
            /\ ret' = [state |-> r.state, reward |-> 0, done |-> FALSE]
            /\ last_state' = r.state
            /\ UNCHANGED exchange_failed
       ELSE /\ outcome' = "raised"
            /\ error' = BridgeError
            /\ ret' = NoRet
            /\ exchange_failed' = TRUE
            /\ UNCHANGED last_state
    /\ run' = NoRun
    /\ UNCHANGED << pc, now, hs_response, step_count, server,
                    backend_never_done >>

Reset(r) ==
    /\ pc = "ready"
    /\ op' = "reset"
    /\ arg' = NoAction
    /\ sent' = ResetRequests(r)
    /\ handshake_requests' = handshake_requests + Handshakes(sent')
    /\ IF r.ok
       THEN /\ outcome' = "returned"
            /\ error' = NoError
            /\ ret' = [state |-> r.state, reward |-> 0, done |-> FALSE]
            /\ UNCHANGED exchange_failed
       ELSE /\ outcome' = "raised"
            /\ error' = BridgeError
            /\ ret' = NoRet
            /\ exchange_failed' = TRUE
    /\ run' = NoRun
    /\ UNCHANGED << pc, now, hs_response, step_count, last_state, server,
                    backend_never_done >>

Render(mode) ==
    /\ pc = "ready"
    /\ op' = "render"
    /\ arg' = NoAction
    /\ sent' = << >>
    /\ IF mode = "human"
       THEN /\ outcome' = "returned"
            /\ error' = NoError
       ELSE /\ outcome' = "raised"
            /\ error' = NotImplementedMsg
    /\ ret' = NoRet
    /\ run' = NoRun
    /\ UNCHANGED << pc, now, hs_response, handshake_requests, step_count,
                    last_state, server, backend_never_done, exchange_failed >>

----------------------------------------------------------------------------
(* GazeboGymEnv: launch_node, _process_waiter, close *)

\* the real environment is not constructed in SpecGazebo and SpecDepth
RealIdle ==
    /\ pc = "initiate"
    /\ now = 0
    /\ hs_response = NoResponse
    /\ handshake_requests = 0
    /\ step_count = 0
    /\ last_state = None
    /\ op = "__init__"
    /\ arg = NoAction
    /\ outcome = "running"
    /\ error = NoError
    /\ ret = NoRet
    /\ sent = << >>
    /\ server = "arbitrary"
    /\ backend_never_done = FALSE
    /\ run = 0
    /\ exchange_failed = FALSE

\* before GazeboGymEnv.__init__; a roscore of the user may already run
GazeboInit ==
    /\ RealIdle
    /\ DepthIdle
    /\ g_pc = "new"
    /\ roslaunch_process = "unset"
    /\ returncode = None
    /\ roslaunch_wait_thread = "unset"
    /\ children = [c \in Children |-> "none"]
    /\ rosmaster \in {"none", "alive"}
    /\ shutdown_hook = "unset"
    /\ closes = 0
    /\ close_error = NoError
    /\ close_traceback = FALSE

LaunchResults == {"launched", "OSError", "ResourceNotFound"}

\* __init__ calling launch_node inside try / except.
\*   "launched": Popen succeeds, the waiter thread is started
\*   "OSError": Popen raises, launch_node catches it and goes on
\*   "ResourceNotFound": rospack.get_path raises out of launch_node, and
\*      __init__ swallows it: the shutdown hook is not registered
LaunchNode(result) ==
    /\ g_pc = "new"
    /\ g_pc' = "constructed"
    /\ IF result = "launched"
       THEN /\ roslaunch_process' = "running"
            /\ roslaunch_wait_thread' = "waiting"
            /\ children' = [c \in Children |-> "alive"]
            /\ rosmaster' = "alive"
       ELSE UNCHANGED << roslaunch_process, roslaunch_wait_thread, children,
                         rosmaster >>
    /\ shutdown_hook' = IF result = "ResourceNotFound" THEN "unset"
                        ELSE "registered"
    /\ UNCHANGED << returncode, closes, close_error, close_traceback >>
    /\ UNCHANGED << real_vars, depth_vars >>

\* the launched roslaunch process ends
ProcessExits ==
    /\ roslaunch_process = "running"
    /\ roslaunch_process' = "exited"
    /\ UNCHANGED << g_pc, returncode, roslaunch_wait_thread, children,
                    rosmaster, shutdown_hook, closes, close_error,
                    close_traceback >>
    /\ UNCHANGED << real_vars, depth_vars >>

\* one of the launched processes ends
ChildExits(c) ==
    /\ children[c] \in {"alive", "terminating"}
    /\ children' = [children EXCEPT ![c] = "gone"]
    /\ UNCHANGED << g_pc, roslaunch_process, returncode,
                    roslaunch_wait_thread, rosmaster, shutdown_hook, closes,
                    close_error, close_traceback >>
    /\ UNCHANGED << real_vars, depth_vars >>

\* mutant: the waiter cleans up the process tree when roslaunch ends
ProcessWaiterCleansUp(result) ==
    /\ roslaunch_wait_thread = "waiting"
    /\ IF result = "returned"
       THEN /\ roslaunch_process = "exited"
            /\ returncode' = "0"
            /\ roslaunch_wait_thread' = "finished"
            /\ children' = [c \in Children |->
                              IF children[c] = "alive" THEN "terminating"
                              ELSE children[c]]
       ELSE /\ roslaunch_wait_thread' = "failed"
            /\ UNCHANGED << returncode, children >>
    /\ UNCHANGED << g_pc, roslaunch_process, rosmaster, shutdown_hook,
                    closes, close_error, close_traceback >>
    /\ UNCHANGED << real_vars, depth_vars >>

\* the waiter thread: self.roslaunch_process.wait() returns once the process
\* has ended (recording its return code in the Popen object) and the thread
\* logs; or wait() raises and the thread logs an error
ProcessWaiter(result) ==
    /\ roslaunch_wait_thread = "waiting"
    /\ IF result = "returned"
       THEN /\ roslaunch_process = "exited"
            /\ returncode' = "0"
            /\ roslaunch_wait_thread' = "finished"
       ELSE /\ roslaunch_wait_thread' = "failed"
            /\ UNCHANGED returncode
    /\ UNCHANGED << g_pc, roslaunch_process, children, rosmaster,
                    shutdown_hook, closes, close_error, close_traceback >>
    /\ UNCHANGED << real_vars, depth_vars >>

\* mutant: close without its try / except
CloseErrorUnguarded(proc, code) ==
    IF proc = "unset" THEN "AttributeError"
    ELSE IF proc = "exited" /\ code # None THEN "NoSuchProcess"
    ELSE NoError

\* the exception close raises: the try / except swallows whatever the
\* psutil block raises, and os.system raises nothing
CloseError(proc, code) == NoError

\* the psutil block raises: the attribute was never set, or the process has
\* ended and been waited for
PsutilRaises(proc, code) ==
    proc = "unset" \/ (proc = "exited" /\ code # None)

\* SIGTERM to every child of the launched process; a process that has ended
\* has no children to list
Signalled(proc, ch) ==
    IF proc = "running"
    THEN [c \in Children |->
            IF ch[c] = "alive" THEN "terminating" ELSE ch[c]]
    ELSE ch

\* killall -9 of the named processes
KillAll(ch) ==
    [c \in Children |->
        IF c \in KilledByName /\ ch[c] # "none" THEN "gone" ELSE ch[c]]

\* close, called by the caller or by the rospy shutdown hook
Close(caller) ==
    /\ g_pc = "constructed"
    /\ IF caller = "hook"
       THEN shutdown_hook = "registered" /\ shutdown_hook' = "ran"
       ELSE closes < MaxCloses /\ UNCHANGED shutdown_hook
    /\ closes' = closes + 1
    /\ close_error' = CloseError(roslaunch_process, returncode)
    /\ close_traceback' = PsutilRaises(roslaunch_process, returncode)
    /\ IF close_error' = NoError
       THEN /\ children' = KillAll(Signalled(roslaunch_process, children))
            /\ rosmaster' = IF rosmaster = "none" THEN "none" ELSE "gone"
       ELSE UNCHANGED << children, rosmaster >>
    /\ UNCHANGED << g_pc, roslaunch_process, returncode,
                    roslaunch_wait_thread >>
    /\ UNCHANGED << real_vars, depth_vars >>

Launch == \E result \in LaunchResults : LaunchNode(result)
ChildExit == \E c \in Children : ChildExits(c)
Waiter == \E result \in {"returned", "raised"} : ProcessWaiter(result)
CloseCall == \E caller \in {"caller", "hook"} : Close(caller)

GazeboNext == Launch \/ ProcessExits \/ ChildExit \/ Waiter \/ CloseCall

SpecGazebo == GazeboInit /\ [][GazeboNext]_vars

----------------------------------------------------------------------------
(* ImageUtils.process_depth_msg *)

\* a pixel: not-a-number, an infinity, or the finite number num / den;
\* float32_max and float32_min are the finite float32 values of largest
\* magnitude
Fin(n) == [kind |-> "fin", num |-> n, den |-> 1]
NaN == [kind |-> "nan", num |-> 0, den |-> 1]
PosInf == [kind |-> "posinf", num |-> 0, den |-> 1]
NegInf == [kind |-> "neginf", num |-> 0, den |-> 1]
Float32Max == [kind |-> "float32_max", num |-> 0, den |-> 1]
Float32Min == [kind |-> "float32_min", num |-> 0, den |-> 1]

RawPixels == {NaN, PosInf, NegInf} \cup {Fin(n) : n \in {-1, 1, 5}}
DepthFrames == [1 .. FrameWidth -> RawPixels]
ClipMaxima == {<< >>, << 4 >>}

\* np.nan_to_num on one float32 value, with its default arguments
NanToNum(p) ==
    CASE p.kind = "nan" -> Fin(0)
      [] p.kind = "posinf" -> Float32Max
      [] p.kind = "neginf" -> Float32Min
      [] OTHER -> p

\* cv2.resize of a row to the given width; the frames considered already
\* have the target width, where the result is a copy of the source
Resize(img, width) ==
    [i \in 1 .. width |-> img[((i - 1) * Len(img)) \div width + 1]]

\* np.clip(img, 0.0, m) on one value
Clip(p, m) ==
    CASE p.kind = "nan" -> p
      [] p.kind \in {"posinf", "float32_max"} -> Fin(m)
      [] p.kind \in {"neginf", "float32_min"} -> Fin(0)
      [] OTHER -> IF p.num < 0 THEN Fin(0)
                  ELSE IF p.num > m THEN Fin(m)
                  ELSE p

\* img / m on one clipped value
Divide(p, m) ==
    IF p.kind = "fin" THEN [p EXCEPT !.den = p.den * m] ELSE p

\* a depth message arrives, with the arguments of the call
DepthInit ==
    /\ RealIdle
    /\ GazeboIdle
    /\ depth_msg \in DepthFrames
    /\ clip_max \in ClipMaxima
    /\ depth_clean = << >>
    /\ depth_img = << >>

ProcessDepthMsg ==
    /\ depth_img = << >>
    /\ LET img == [i \in 1 .. Len(depth_msg) |-> NanToNum(depth_msg[i])]
           resized == Resize(img, FrameWidth)
       IN  /\ depth_clean' = img
           /\ depth_img' =
                IF clip_max = << >> THEN resized
                ELSE [i \in 1 .. Len(resized) |->
                        Divide(Clip(resized[i], clip_max[1]), clip_max[1])]
    /\ UNCHANGED << depth_msg, clip_max >>
    /\ UNCHANGED << real_vars, gazebo_vars >>

SpecDepth == DepthInit /\ [][ProcessDepthMsg]_vars

----------------------------------------------------------------------------
(* Specifications *)

Poll ==
    /\ \E r \in HandshakeResponses(server) : InitiatePoll(r)
    /\ UNCHANGED << gazebo_vars, depth_vars >>
StepCall ==
    /\ \E a \in RawActions, r \in ActionResults(backend_never_done) : Step(a, r)
    /\ UNCHANGED << gazebo_vars, depth_vars >>
ResetCall ==
    /\ \E r \in ResetResults : Reset(r)
    /\ UNCHANGED << gazebo_vars, depth_vars >>
RenderCall ==
    /\ \E mode \in RenderModes : Render(mode)
    /\ UNCHANGED << gazebo_vars, depth_vars >>

Next == Poll \/ Tick \/ StepCall \/ ResetCall \/ RenderCall

Spec == Init /\ [][Next]_vars

\* a step call with a valid action whose backend exchange completes
ValidStepCompletes ==
    /\ \E a \in RawActions, r \in ActionResults(backend_never_done) :
          ActionAssert(a) = "ok" /\ r.ok /\ Step(a, r)
    /\ UNCHANGED << gazebo_vars, depth_vars >>

\* the backend never reports done and the agent keeps calling step with
\* valid actions
InitNeverDone == Init /\ backend_never_done

FairSpec == InitNeverDone /\ [][Next]_vars /\ WF_vars(ValidStepCompletes)

----------------------------------------------------------------------------
(* Claims *)

OnlyRequests(name) == \A i \in 1 .. Len(sent) : sent[i].req = name

\* a valid action, as the claims define it: the enum, or an integer in 0..3
IsValidAction(a) ==
    \/ a.kind = "enum"
    \/ a.kind = "int" /\ a.val \in 0 .. 3

\* C1: from a fresh environment, over 100 consecutive valid step calls with
\* backend done = false, step returns done = false on calls 1..99 and
\* done = true on call 100, after which the step counter is 0.
C1_CapAtHundredthStep ==
    /\ run \in 1 .. 99 =>
          /\ op = "step" /\ outcome = "returned"
          /\ ret.done = FALSE
          /\ step_count = run
    /\ run = 100 =>
          /\ op = "step" /\ outcome = "returned"
          /\ ret.done = TRUE
          /\ step_count = 0

C1_Witness == run = 100 /\ ret.done = TRUE

\* C2: with a backend that never reports done, an agent that keeps calling
\* step with valid actions eventually gets done = true, whatever calls came
\* before.
C2_EventuallyDone ==
    [](pc = "ready" /\ backend_never_done
         => <>(op = "step" /\ outcome = "returned" /\ ret.done))

\* C3: after reset() returns, the step counter is 0.
C3_ResetClearsCounter ==
    (op = "reset" /\ outcome = "returned") => step_count = 0

\* C4: with a server that never responds, a poll that completes more than
\* 60 seconds after the first attempt ends the handshake with the timed-out
\* error.
C4_HandshakeTimesOut ==
    [][(/\ server = "never_responds"
        /\ handshake_requests' = handshake_requests + 1
        /\ now > 60)
          => (pc' = "failed" /\ error' = TimedOutMsg)]_vars

\* C5: against a server that always reports a non-running status the
\* handshake fails with "Gym server is not ready." on the first poll: one
\* handshake request is issued and the session never reaches Running.
C5_NotReadyOnFirstPoll ==
    server = "not_running" =>
        /\ pc # "ready"
        /\ handshake_requests <= 1
        /\ handshake_requests = 1 =>
              (pc = "failed" /\ outcome = "raised" /\ error = NotReadyMsg)

C5_Witness ==
    server = "not_running" /\ pc = "failed" /\ handshake_requests = 1

\* C6: a handshake answer of running status with registration not
\* acknowledged makes construction fail with the server's message; no
\* instance is produced and no step or reset request reaches the backend.
C6_RegistrationRefused ==
    (hs_response.heartbeat = STATUS_RUNNING /\ ~hs_response.registered) =>
        /\ pc = "failed"
        /\ op = "__init__" /\ outcome = "raised"
        /\ error = hs_response.message
        /\ OnlyRequests("perform_handshake")

C6_Witness ==
    /\ hs_response.heartbeat = STATUS_RUNNING /\ ~hs_response.registered
    /\ pc = "failed"

\* C7: step with an invalid action (None, a value of another type, an
\* integer outside 0..3) raises without issuing a perform_action request.
C7_InvalidActionNoRequest ==
    (op = "step" /\ ~IsValidAction(arg)) =>
        /\ outcome = "raised"
        /\ error \in {NoneActionMsg, ActionTypeMsg, ActionValueMsg}
        /\ sent = << >>

C7_Witness ==
    op = "step" /\ arg = [kind |-> "int", val |-> 4] /\ outcome = "raised"

\* C8: once a step or reset exchange has failed, no later step or reset call
\* completes successfully or sends another request to the backend.
C8_FailureIsTerminal ==
    [][(exchange_failed /\ op' \in {"step", "reset"})
          => (outcome' = "raised" /\ sent' = << >>)]_vars

\* C9: a step call issues at most one perform_action request and a reset
\* call at most one perform_reset request, whether the exchange succeeds or
\* fails; only the handshake repeats a request.
C9_NoSilentRetry ==
    /\ op = "step" => (Len(sent) <= 1 /\ OnlyRequests("perform_action"))
    /\ op = "reset" => (Len(sent) <= 1 /\ OnlyRequests("perform_reset"))
    /\ Len(sent) > 1 => (op = "__init__" /\ OnlyRequests("perform_handshake"))

C9_Witness ==
    op = "step" /\ outcome = "raised" /\ error = BridgeError /\ Len(sent) = 1

\* C10: once the handshake has ended, in Running or in failure, no step,
\* reset or render call issues another handshake request.
C10_HandshakeOnce ==
    [][pc # "initiate" => handshake_requests' = handshake_requests]_vars

C10_Witness ==
    /\ pc = "ready" /\ handshake_requests >= 1
    /\ op = "reset" /\ outcome = "returned"

\* C11: for every integer 0..3 step sends the motion command with that
\* value (0 Left, 1 Right, 2 Forward, 3 Backward), distinct integers give
\* distinct commands, and an action given as the enum is sent unchanged.
C11_DecodeBijection ==
    /\ (op = "step" /\ IsValidAction(arg) /\ sent # << >>) =>
          sent = << Request("perform_action", arg.val) >>
    /\ \A i, j \in 0 .. 3 :
          i # j => Decode([kind |-> "int", val |-> i])
                     # Decode([kind |-> "int", val |-> j])
    /\ \A v \in 0 .. 3 :
          /\ Decode([kind |-> "int", val |-> v]) = [kind |-> "enum", val |-> v]
          /\ Decode([kind |-> "enum", val |-> v]) = [kind |-> "enum", val |-> v]
    /\ FourDiscreteMotionActions(key_mapping.left) = "LEFT"
    /\ FourDiscreteMotionActions(key_mapping.right) = "RIGHT"
    /\ FourDiscreteMotionActions(key_mapping.up) = "FORWARD"
    /\ FourDiscreteMotionActions(key_mapping.down) = "BACKWARD"

C11_Witness ==
    /\ op = "step" /\ outcome = "returned"
    /\ arg = [kind |-> "int", val |-> 3]
    /\ sent = << Request("perform_action", 3) >>

\* C15: a step call rejected for an invalid action leaves the step counter
\* and the cached last observation unchanged.
C15_RejectedStepKeepsCounter ==
    [][(pc = "ready" /\ op' = "step" /\ ~IsValidAction(arg'))
          => (step_count' = step_count /\ last_state' = last_state)]_vars

\* C16: for every step call that returns normally, the returned done flag
\* is true if and only if the step counter is 0 after the call.
C16_DoneIffCounterZero ==
    (op = "step" /\ outcome = "returned") => (ret.done <=> step_count = 0)

C16_Witness ==
    /\ op = "step" /\ outcome = "returned" /\ ret.done
    /\ step_count = 0 /\ run = NoRun

\* C17: in every reachable state the step counter is between 0 and the
\* maximum episode length 100.
C17_CounterWithinCap == step_count \in 0 .. EPISODE_LENGTH

\* C18: no perform_action or perform_reset request is sent unless an earlier
\* handshake response reported running status with registration
\* acknowledged; the loop polls again only while the response carries no
\* heartbeat, and every response with a heartbeat ends the handshake.
C18_GatedByHandshake ==
    /\ (\E i \in 1 .. Len(sent) :
            sent[i].req \in {"perform_action", "perform_reset"}) =>
          (hs_response.heartbeat = STATUS_RUNNING /\ hs_response.registered)
    /\ pc = "ready" =>
          (hs_response.heartbeat = STATUS_RUNNING /\ hs_response.registered)
    /\ hs_response.heartbeat # None => pc # "initiate"
    /\ (pc = "initiate" /\ handshake_requests > 0) =>
          hs_response.heartbeat = None

C18_Witness ==
    /\ op = "step" /\ sent # << >>
    /\ handshake_requests = 2
    /\ hs_response.heartbeat = STATUS_RUNNING /\ hs_response.registered

\* C19: the observation cached for render changes only when a step
\* completes its backend exchange, and then equals the observation that
\* step returns; reset, render, a rejected step and a step whose exchange
\* fails leave it unchanged.
C19_CacheOnlyOnCompletedStep ==
    [][pc = "ready" =>
          IF op' = "step" /\ outcome' = "returned"
          THEN last_state' = ret'.state
          ELSE last_state' = last_state]_vars

C19_Witness ==
    /\ op = "reset" /\ outcome = "returned"
    /\ last_state \in Observations /\ ret.state # last_state

C13_NonFiniteBecomesZero ==
    depth_clean # << >> =>
        \A i \in 1 .. Len(depth_msg) :
            depth_msg[i].kind \in {"nan", "posinf", "neginf"} =>
                depth_clean[i] = Fin(0)

\* C14: the waiter thread of a launched simulator never modifies
\* environment or session state, in any interleaving with the control loop:
\* it only waits for the process to end (the wait records the return code
\* in the Popen object) and logs.
C14_WaiterTouchesNothing ==
    [][(roslaunch_wait_thread = "waiting"
          /\ roslaunch_wait_thread' # "waiting") =>
          UNCHANGED << g_pc, roslaunch_process, children, rosmaster,
                       shutdown_hook, closes, close_error, close_traceback,
                       real_vars, depth_vars >>]_vars

C14_Witness ==
    /\ roslaunch_wait_thread = "finished" /\ closes >= 1
    /\ \E c \in Children : children[c] = "terminating"

====
